---- MODULE Spec2Model ----
(***************************************************************************)
(* LawChat retrieval pipeline: the MCP tool chromadb_search                *)
(* (src/mcp_server/server.py) and its caller LawChatClient.search_cases    *)
(* (src/mcp_client/client.py).                                             *)
(*                                                                         *)
(* Conventions                                                             *)
(*   - Python None / an absent dict key is the empty tuple <<>>, a present *)
(*     value v is the one-element tuple <<v>>.                             *)
(*   - A passage text is a run-length encoded string: a sequence of runs   *)
(*     [c |-> character, n |-> repetitions], adjacent runs having          *)
(*     different characters, so that two texts are equal iff their         *)
(*     encodings are equal and a 200-character slice is computed exactly.  *)
(*   - A file path is the sequence of its "/"-separated components; the    *)
(*     empty string is the empty sequence.                                 *)
(*   - Scores and distances are counted in tenths (0.9 is 9, 1 is 10).     *)
(***************************************************************************)
EXTENDS Integers, Sequences, FiniteSets, TLC

\* ------------------------------------------------------------------ bounds
MaxNodes == 3
MaxLimit == 3
NumCalls == 2

\* --------------------------------------------------------------- constants
HashPrefixLen == 200

\* ------------------------------------------------------- values and helpers
None == <<>>

Some(v) == <<v>>

Calls == 1 .. NumCalls

\* text * k
Rep(ch, k) == <<[c |-> ch, n |-> k]>>

\* len(content) of a run-length encoded text
RECURSIVE StrLen(_)
StrLen(s) == IF s = <<>> THEN 0 ELSE Head(s).n + StrLen(Tail(s))

\* content[:k] for k >= 0
RECURSIVE StrPrefix(_, _)
StrPrefix(s, k) ==
    IF k <= 0 \/ s = <<>> THEN <<>>
    ELSE IF Head(s).n >= k THEN <<[c |-> Head(s).c, n |-> k]>>
    ELSE <<Head(s)>> \o StrPrefix(Tail(s), k - Head(s).n)

\* the hash of the whole text
ContentHashWhole(content) == content

\* hash(content[:200]); the hash itself is taken to be collision free
ContentHash(content) == StrPrefix(content, HashPrefixLen)

\* os.path.basename(file_path)
Basename(path) == IF path = <<>> THEN "" ELSE path[Len(path)]

\* f"no_file_{len(unique_cases)}"
NoFileKey(size) == "no_file_" \o ToString(size)

\* meta.get("file"): None when the key is absent
MetaFile(meta) == meta.file

\* meta.get("case_number", "")
MetaCaseNumber(meta) == IF meta.case_number = None THEN "" ELSE meta.case_number[1]

\* truth value of file_path: None and "" are falsy
FileTruthy(file) == file # None /\ file[1] # <<>>

\* the distance with a truthiness test: (1 - node.score) if node.score else 0.5
DistanceTruthy(score) == IF score # None /\ score[1] # 0 THEN 10 - score[1] ELSE 5

\* (1 - node.score) if node.score is not None else 0.5, in tenths
Distance(score) == IF score # None THEN 10 - score[1] ELSE 5

\* list[:n] for any integer n
SliceTo(seq, n) ==
    IF n >= 0
    THEN SubSeq(seq, 1, IF n < Len(seq) THEN n ELSE Len(seq))
    ELSE SubSeq(seq, 1, IF Len(seq) + n > 0 THEN Len(seq) + n ELSE 0)

\* the keys of the ordered mapping
Keys(cases) == {cases[p].key : p \in 1 .. Len(cases)}

\* unique_cases[key] = value on an insertion-ordered dict: an existing key
\* keeps its position and takes the new value, a new key goes last
DictSet(cases, key, value) ==
    IF key \in Keys(cases)
    THEN [p \in 1 .. Len(cases) |->
            IF cases[p].key = key THEN [key |-> key, value |-> value]
            ELSE cases[p]]
    ELSE Append(cases, [key |-> key, value |-> value])

\* -------------------------------------------------------- document resolver
\* possible_paths for a filename, in probing order
PossiblePaths(filename) ==
    << <<"law_data", "civil_law_details", filename>>,
       <<"law_data", "commercial_law_details", filename>>,
       <<"law_data", filename>> >>

\* case_data values: the parsed content of a file, or an {"error": ...} dict
ParsedJson(path) == [error |-> None, json |-> Some(path)]

ErrorMarker(text) == [error |-> Some(text), json |-> None]

LoadFailed == ErrorMarker("load failed")

NotInLawData == ErrorMarker("no such file in law_data")

NoFileInfo == ErrorMarker("no file info in metadata")

\* a probing loop that goes on to the next directory when json.load raises
RECURSIVE ProbeFromTryNext(_, _, _)
ProbeFromTryNext(files, paths, k) ==
    IF k > Len(paths)
    THEN [file_found |-> FALSE, case_data |-> NotInLawData, probed |-> paths]
    ELSE IF paths[k] \in files.exists /\ paths[k] \in files.parses
    THEN [file_found |-> TRUE, case_data |-> ParsedJson(paths[k]),
          probed |-> SubSeq(paths, 1, k)]
    ELSE ProbeFromTryNext(files, paths, k + 1)

\* the loop over possible_paths from position k on: the first path that
\* exists ends the probing, whether json.load succeeds or raises
RECURSIVE ProbeFrom(_, _, _)
ProbeFrom(files, paths, k) ==
    IF k > Len(paths)
    THEN [file_found |-> FALSE, case_data |-> NotInLawData, probed |-> paths]
    ELSE IF paths[k] \in files.exists
    THEN [file_found |-> TRUE,
          case_data  |-> IF paths[k] \in files.parses
                         THEN ParsedJson(paths[k]) ELSE LoadFailed,
          probed     |-> SubSeq(paths, 1, k)]
    ELSE ProbeFrom(files, paths, k + 1)

\* a resolver that reports every miss with the marker of the no-file branch
ResolveWrongMarker(files, filename) ==
    LET probe == ProbeFrom(files, PossiblePaths(filename), 1)
    IN  IF probe.file_found THEN probe ELSE [probe EXCEPT !.case_data = NoFileInfo]

Resolve(files, filename) == ProbeFrom(files, PossiblePaths(filename), 1)

\* ------------------------------------------------------------------ inputs
\* node.metadata: a dict (valid) with optional "file" and "case_number", or
\* a value dict() cannot copy (None)
Meta(file, case_number) == [valid |-> TRUE, file |-> file, case_number |-> case_number]

NotAMapping == [valid |-> FALSE, file |-> None, case_number |-> None]

Node(meta, content, score) == [metadata |-> meta, content |-> content, score |-> score]

\* passage texts with their scores: two texts that agree on the first 200
\* characters and differ after them, and two that differ within them
PassageA == [content |-> Rep("a", 200) \o Rep("b", 1), score |-> None]

PassageB == [content |-> Rep("a", 200) \o Rep("c", 1), score |-> Some(9)]

PassageC == [content |-> Rep("a", 199) \o Rep("b", 1), score |-> Some(0)]

PassageD == [content |-> Rep("f", 3), score |-> Some(10)]

\* nodes that carry a file, one passage per file: two paths with one
\* basename and a third file, each with an empty and with a non-empty case
\* number
KeyNodes ==
    { Node(Meta(Some(f.path), cn), f.passage.content, f.passage.score) :
        f \in { [path |-> <<"x.json">>, passage |-> PassageA],
                [path |-> <<"data", "x.json">>, passage |-> PassageC],
                [path |-> <<"y.json">>, passage |-> PassageD] },
        cn \in { Some(""), Some("100") } }

\* nodes told apart by their text, without "case_number": no "file" key or a
\* file whose name has the form of a synthetic key; one node with an empty
\* "file"; and one node whose metadata is no mapping
TextNodes ==
    { Node(Meta(f, None), p.content, p.score) :
        f \in { None, Some(<<"no_file_2">>) },
        p \in { PassageA, PassageB, PassageC, PassageD } }
    \cup { Node(Meta(Some(<<>>), None), PassageD.content, PassageD.score),
           Node(NotAMapping, PassageD.content, None) }

\* a small index for the resolver: two files and one node without a file
FileNodes ==
    { Node(Meta(Some(<<"x.json">>), Some("")), PassageA.content, PassageA.score),
      Node(Meta(Some(<<"y.json">>), Some("")), PassageD.content, PassageD.score),
      Node(Meta(None, None), PassageC.content, PassageC.score) }

\* the passages of an index
\* the one passage every concurrent call is handed
SharedNodes ==
    { Node(Meta(Some(<<"x.json">>), Some("100")), PassageA.content, PassageA.score) }

IndexNodes(name) ==
    IF name = "keys" THEN KeyNodes
    ELSE IF name = "files" THEN FileNodes
    ELSE IF name = "shared" THEN SharedNodes
    ELSE TextNodes

RECURSIVE SeqsUpTo(_, _)
SeqsUpTo(S, k) ==
    IF k = 0 THEN { <<>> }
    ELSE LET shorter == SeqsUpTo(S, k - 1)
         IN  shorter \cup { Append(q, x) : q \in {r \in shorter : Len(r) = k - 1}, x \in S }

\* file systems: which paths exist and which of them hold valid JSON
FileSystems ==
    { [exists |-> {}, parses |-> {}],
      [exists |-> { <<"law_data", "civil_law_details", "x.json">> },
       parses |-> { <<"law_data", "civil_law_details", "x.json">> }] }

\* every state of the three places of x.json: absent, valid JSON, or present
\* and unreadable as JSON
ResolverFileSystems ==
    UNION { { [exists |-> E, parses |-> P] : P \in SUBSET E } :
            E \in SUBSET { <<"law_data", "civil_law_details", "x.json">>,
                           <<"law_data", "commercial_law_details", "x.json">>,
                           <<"law_data", "x.json">> } }

\* ------------------------------------------------------------------- state
VARIABLES
    client,             \* LawChatClient.client: FALSE until initialize() ran
    fs,                 \* the law_data directory tree, read-only
    index,              \* which passages the vector index holds, read-only
    pc,                 \* per call: where the call stands
    n_results,          \* per call: max_results / n_results argument
    source_nodes,       \* per call: response_obj.source_nodes
    analysis,           \* per call: response_obj.response
    i,                  \* per call: position of the for loop in source_nodes
    unique_cases,       \* per call: the insertion-ordered dict unique_cases
    seen_content,       \* per call: the set seen_content
    seen_case_numbers,  \* per call: the set seen_case_numbers
    response,           \* per call: what chromadb_search returned (or None)
    result,             \* per call: what search_cases returned (or None)
    failure,            \* per call, history: where the search step failed
    accepted,           \* per call, history: per processed node, its key or None
    origin,             \* per call, history: position in source_nodes of each entry
    resolver_log        \* per call, history: paths probed by each resolver run

vars ==
    << client, fs, index, pc, n_results, source_nodes, analysis, i, unique_cases,
       seen_content, seen_case_numbers, response, result, failure, accepted,
       origin, resolver_log >>

serverVars ==
    << source_nodes, analysis, i, unique_cases, seen_content,
       seen_case_numbers, response, accepted, origin, resolver_log >>

\* the state of a call that has not reached the tool yet; call 1 is the call
\* under study, the other calls stay idle
InitWith(indexes, fileSystems) ==
    /\ client = FALSE
    /\ fs \in fileSystems
    /\ index \in indexes
    /\ pc = [c \in Calls |-> IF c = 1 THEN "start" ELSE "idle"]
    /\ \E limit \in 0 .. MaxLimit :
         n_results = [c \in Calls |-> IF c = 1 THEN limit ELSE 0]
    /\ source_nodes = [c \in Calls |-> <<>>]
    /\ analysis = [c \in Calls |-> ""]
    /\ i = [c \in Calls |-> 1]
    /\ unique_cases = [c \in Calls |-> <<>>]
    /\ seen_content = [c \in Calls |-> {}]
    /\ seen_case_numbers = [c \in Calls |-> {}]
    /\ response = [c \in Calls |-> None]
    /\ result = [c \in Calls |-> None]
    /\ failure = [c \in Calls |-> "none"]
    /\ accepted = [c \in Calls |-> <<>>]
    /\ origin = [c \in Calls |-> <<>>]
    /\ resolver_log = [c \in Calls |-> <<>>]

Init == InitWith({"keys", "text"}, FileSystems)

\* ------------------------------------------------------ LawChatClient side
\* a degraded response whose documents are a flat empty list
DegradedFlat(text) ==
    [analysis |-> text, documents |-> <<>>, metadatas |-> <<>>, distances |-> <<>>]

\* the response search_cases builds itself when no parsed result is at hand
Degraded(text) ==
    [analysis |-> text, documents |-> << <<>> >>, metadatas |-> <<>>, distances |-> <<>>]

SearchErrorText == "search error: exception"

EmptyResponseText == "empty response from MCP server"

ToolErrorText == "Error executing tool chromadb_search"

\* search_cases up to the try block: initialize() when there is no client yet
ClientStart(c) ==
    /\ pc[c] = "start"
    /\ client' = TRUE
    /\ pc' = [pc EXCEPT ![c] = "session"]
    /\ UNCHANGED << fs, index, n_results, result, failure >>
    /\ UNCHANGED serverVars

\* client.session(...) or session.call_tool(...) raises before the tool runs:
\* the except branch returns the degraded response
SessionFail(c) ==
    /\ pc[c] = "session"
    /\ result' = [result EXCEPT ![c] = Some(Degraded(SearchErrorText))]
    /\ failure' = [failure EXCEPT ![c] = "session"]
    /\ pc' = [pc EXCEPT ![c] = "done"]
    /\ UNCHANGED << client, fs, index, n_results >>
    /\ UNCHANGED serverVars

\* session.call_tool("chromadb_search", ...) reaches the server
CallTool(c) ==
    /\ pc[c] = "session"
    /\ pc' = [pc EXCEPT ![c] = "query"]
    /\ UNCHANGED << client, fs, index, n_results, result, failure >>
    /\ UNCHANGED serverVars

\* --------------------------------------------------------- chromadb_search
\* response_obj = await query_engine.aquery(user_question), which may raise;
\* on return it holds the answer text and a ranked list of at most MaxNodes
\* nodes of the index, and the three dedup containers are created empty
Aquery(c) ==
    /\ pc[c] = "query"
    /\ \E raises \in BOOLEAN :
         IF raises
         THEN /\ pc' = [pc EXCEPT ![c] = "tool_raised"]
              /\ failure' = [failure EXCEPT ![c] = "aquery"]
              /\ UNCHANGED << analysis, source_nodes >>
         ELSE /\ \E nodes \in SeqsUpTo(IndexNodes(index), MaxNodes) :
                   /\ source_nodes' = [source_nodes EXCEPT ![c] = nodes]
                   /\ pc' = [pc EXCEPT ![c] =
                                IF nodes = <<>> THEN "assemble" ELSE "loop"]
              /\ analysis' = [analysis EXCEPT ![c] = "synthesized answer"]
              /\ UNCHANGED failure
    /\ UNCHANGED << client, fs, index, n_results, result, i, unique_cases,
                    seen_content, seen_case_numbers, response, accepted, origin,
                    resolver_log >>

\* the duplicate test without the file name
DuplicateFileNoName(filename, case_number, content_hash, cases, case_numbers, contents) ==
    \/ (case_number # "" /\ case_number \in case_numbers)
    \/ content_hash \in contents

\* the duplicate test without the case number
DuplicateFileNoCase(filename, case_number, content_hash, cases, case_numbers, contents) ==
    \/ filename \in Keys(cases)
    \/ content_hash \in contents

\* the duplicate test of the file branch: same file name, or same non-empty
\* case number, or same content hash as an accepted node
DuplicateFile(filename, case_number, content_hash, cases, case_numbers, contents) ==
    \/ filename \in Keys(cases)
    \/ (case_number # "" /\ case_number \in case_numbers)
    \/ content_hash \in contents

\* no break test at all
BreakTestNever(size, limit) == FALSE

\* the break test off by one: if len(unique_cases) > n_results
BreakTestOffByOne(size, limit) == size > limit

\* if len(unique_cases) >= n_results: break
BreakTest(size, limit) == size >= limit

\* one pass of the loop body for node = source_nodes[i], as a record of what
\* the pass leaves behind
LoopPass(cases, contents, case_numbers, files, node, limit) ==
    LET meta         == node.metadata
        file_path    == MetaFile(meta)
        case_number  == MetaCaseNumber(meta)
        content      == node.content
        content_hash == ContentHash(content)
        filename     == Basename(file_path[1])
        resolved     == Resolve(files, filename)
        Entry(case_data) ==
            [document |-> content,
             metadata |-> [file |-> meta.file, case_number |-> meta.case_number,
                           case_data |-> case_data],
             distance |-> Distance(node.score)]
        unique_key   == NoFileKey(Len(cases))
        Pass(newCases, newContents, newNumbers, key, probes, skipCheck) ==
            [raised |-> FALSE, cases |-> newCases, contents |-> newContents,
             case_numbers |-> newNumbers, key |-> key, probes |-> probes,
             stop |-> (~skipCheck /\ BreakTest(Len(newCases), limit))]
    IN  IF ~meta.valid
        THEN [raised |-> TRUE, cases |-> cases, contents |-> contents,
              case_numbers |-> case_numbers, key |-> None, probes |-> None,
              stop |-> TRUE]
        ELSE IF FileTruthy(file_path)
        THEN IF DuplicateFile(filename, case_number, content_hash,
                              cases, case_numbers, contents)
             THEN Pass(cases, contents, case_numbers, None, None, TRUE)
             ELSE Pass(DictSet(cases, filename, Entry(resolved.case_data)),
                       contents \cup {content_hash},
                       IF case_number # "" THEN case_numbers \cup {case_number}
                       ELSE case_numbers,
                       Some(filename), Some(resolved.probed), FALSE)
        ELSE IF content_hash \notin contents
        THEN Pass(DictSet(cases, unique_key, Entry(NoFileInfo)),
                  contents \cup {content_hash}, case_numbers,
                  Some(unique_key), None, FALSE)
        ELSE Pass(cases, contents, case_numbers, None, None, FALSE)

\* the loop body over dedup sets that are process-wide instead of created by
\* the call: the duplicate test sees what every call has recorded
LoopBodyShared(c) ==
    /\ pc[c] = "loop"
    /\ LET pass == LoopPass(unique_cases[c],
                            UNION {seen_content[d] : d \in Calls},
                            UNION {seen_case_numbers[d] : d \in Calls},
                            fs, source_nodes[c][i[c]], n_results[c])
       IN  /\ unique_cases' = [unique_cases EXCEPT ![c] = pass.cases]
           /\ seen_content' = [seen_content EXCEPT ![c] = pass.contents]
           /\ seen_case_numbers' = [seen_case_numbers EXCEPT ![c] = pass.case_numbers]
           /\ accepted' = [accepted EXCEPT ![c] = Append(@, pass.key)]
           /\ origin' = [origin EXCEPT ![c] =
                            IF pass.key = None THEN @ ELSE DictSet(@, pass.key[1], i[c])]
           /\ resolver_log' = [resolver_log EXCEPT ![c] =
                            IF pass.probes = None THEN @ ELSE Append(@, pass.probes[1])]
           /\ i' = [i EXCEPT ![c] = IF pass.stop THEN @ ELSE @ + 1]
           /\ pc' = [pc EXCEPT ![c] =
                        IF pass.stop \/ i[c] = Len(source_nodes[c]) THEN "assemble"
                        ELSE "loop"]
    /\ UNCHANGED << client, fs, index, n_results, result, failure, source_nodes,
                    analysis, response >>

\* the loop body recording the content hash of the node before the duplicate
\* test, so that a rejected node leaves its hash behind
LoopBodyRecordsRejected(c) ==
    /\ pc[c] = "loop"
    /\ LET node == source_nodes[c][i[c]]
           pass == LoopPass(unique_cases[c], seen_content[c], seen_case_numbers[c],
                            fs, node, n_results[c])
       IN  /\ unique_cases' = [unique_cases EXCEPT ![c] = pass.cases]
           /\ seen_content' = [seen_content EXCEPT ![c] =
                            IF pass.raised THEN @
                            ELSE pass.contents \cup {ContentHash(node.content)}]
           /\ seen_case_numbers' = [seen_case_numbers EXCEPT ![c] = pass.case_numbers]
           /\ accepted' = [accepted EXCEPT ![c] =
                            IF pass.raised THEN @ ELSE Append(@, pass.key)]
           /\ origin' = [origin EXCEPT ![c] =
                            IF pass.key = None THEN @ ELSE DictSet(@, pass.key[1], i[c])]
           /\ resolver_log' = [resolver_log EXCEPT ![c] =
                            IF pass.probes = None THEN @ ELSE Append(@, pass.probes[1])]
           /\ failure' = [failure EXCEPT ![c] = IF pass.raised THEN "metadata" ELSE @]
           /\ i' = [i EXCEPT ![c] = IF pass.raised \/ pass.stop THEN @ ELSE @ + 1]
           /\ pc' = [pc EXCEPT ![c] =
                        IF pass.raised THEN "tool_raised"
                        ELSE IF pass.stop \/ i[c] = Len(source_nodes[c]) THEN "assemble"
                        ELSE "loop"]
    /\ UNCHANGED << client, fs, index, n_results, result, source_nodes, analysis, response >>

\* the loop body for the node at position i, then the break test and the step
\* to the next node (a duplicate in the file branch goes on by "continue",
\* without the break test)
LoopBody(c) ==
    /\ pc[c] = "loop"
    /\ LET pass == LoopPass(unique_cases[c], seen_content[c], seen_case_numbers[c],
                            fs, source_nodes[c][i[c]], n_results[c])
       IN  /\ unique_cases' = [unique_cases EXCEPT ![c] = pass.cases]
           /\ seen_content' = [seen_content EXCEPT ![c] = pass.contents]
           /\ seen_case_numbers' = [seen_case_numbers EXCEPT ![c] = pass.case_numbers]
           /\ accepted' = [accepted EXCEPT ![c] =
                            IF pass.raised THEN @ ELSE Append(@, pass.key)]
           /\ origin' = [origin EXCEPT ![c] =
                            IF pass.key = None THEN @ ELSE DictSet(@, pass.key[1], i[c])]
           /\ resolver_log' = [resolver_log EXCEPT ![c] =
                            IF pass.probes = None THEN @ ELSE Append(@, pass.probes[1])]
           /\ failure' = [failure EXCEPT ![c] = IF pass.raised THEN "metadata" ELSE @]
           /\ i' = [i EXCEPT ![c] = IF pass.raised \/ pass.stop THEN @ ELSE @ + 1]
           /\ pc' = [pc EXCEPT ![c] =
                        IF pass.raised THEN "tool_raised"
                        ELSE IF pass.stop \/ i[c] = Len(source_nodes[c]) THEN "assemble"
                        ELSE "loop"]
    /\ UNCHANGED << client, fs, index, n_results, result, source_nodes, analysis, response >>

\* the tail of chromadb_search: truncate to n_results, split into the three
\* parallel lists and return
AssembleResponse(cases, text, limit) ==
    LET unique_list == SliceTo(cases, limit)
    IN  [analysis  |-> text,
         documents |-> << [p \in 1 .. Len(unique_list) |-> unique_list[p].value.document] >>,
         metadatas |-> [p \in 1 .. Len(unique_list) |-> unique_list[p].value.metadata],
         distances |-> [p \in 1 .. Len(unique_list) |-> unique_list[p].value.distance]]

Assemble(c) ==
    /\ pc[c] = "assemble"
    /\ response' = [response EXCEPT ![c] =
                      Some(AssembleResponse(unique_cases[c], analysis[c], n_results[c]))]
    /\ pc' = [pc EXCEPT ![c] = "tool_returned"]
    /\ UNCHANGED << client, fs, index, n_results, result, failure, source_nodes, analysis,
                    i, unique_cases, seen_content, seen_case_numbers, accepted,
                    origin, resolver_log >>

\* --------------------------------------------- back in search_cases
\* the text of result.content[0]: the JSON dump of the tool's return value,
\* or a plain message
JsonText(value) == [json |-> TRUE, value |-> Some(value), text |-> ""]

PlainText(text) == [json |-> FALSE, value |-> None, text |-> text]

\* lines 38-65 of search_cases: content is None when result.content is
\* missing or empty; json.loads succeeds on JSON text only
ParseToolResult(content) ==
    IF content # None
    THEN LET json_str == content[1]
         IN  IF json_str.json THEN json_str.value[1] ELSE Degraded(json_str.text)
    ELSE Degraded(EmptyResponseText)

\* what call_tool hands back for a tool that returned (its value as JSON
\* text) or raised (the server's error message, or nothing)
ToolContents(c) ==
    IF pc[c] = "tool_returned"
    THEN { Some(JsonText(response[c][1])) }
    ELSE { Some(PlainText(ToolErrorText)), None }

\* call_tool returns a result and search_cases turns it into its return value
ToolResult(c) ==
    /\ pc[c] \in {"tool_returned", "tool_raised"}
    /\ \E content \in ToolContents(c) :
         result' = [result EXCEPT ![c] = Some(ParseToolResult(content))]
    /\ pc' = [pc EXCEPT ![c] = "done"]
    /\ UNCHANGED << client, fs, index, n_results, failure >>
    /\ UNCHANGED serverVars

\* call_tool raises instead (the failure of the tool is reported as an
\* exception): the except branch
ToolException(c) ==
    /\ pc[c] = "tool_raised"
    /\ result' = [result EXCEPT ![c] = Some(Degraded(SearchErrorText))]
    /\ pc' = [pc EXCEPT ![c] = "done"]
    /\ UNCHANGED << client, fs, index, n_results, failure >>
    /\ UNCHANGED serverVars

\* ------------------------------------------------------------ specification
Next ==
    \E c \in Calls :
        \/ ClientStart(c)
        \/ SessionFail(c)
        \/ CallTool(c)
        \/ Aquery(c)
        \/ LoopBody(c)
        \/ Assemble(c)
        \/ ToolResult(c)
        \/ ToolException(c)

Spec == Init /\ [][Next]_vars

\* the resolver under every state of the law_data tree
InitResolver == InitWith({"files"}, ResolverFileSystems)

SpecResolver == InitResolver /\ [][Next]_vars

\* several search_cases calls in flight at once through one client, all with
\* the same limit and all answered from the same index: every call starts,
\* and their steps interleave freely
InitConcurrent ==
    /\ client = FALSE
    /\ fs \in FileSystems
    /\ index = "shared"
    /\ pc = [c \in Calls |-> "start"]
    /\ \E limit \in 0 .. MaxLimit : n_results = [c \in Calls |-> limit]
    /\ source_nodes = [c \in Calls |-> <<>>]
    /\ analysis = [c \in Calls |-> ""]
    /\ i = [c \in Calls |-> 1]
    /\ unique_cases = [c \in Calls |-> <<>>]
    /\ seen_content = [c \in Calls |-> {}]
    /\ seen_case_numbers = [c \in Calls |-> {}]
    /\ response = [c \in Calls |-> None]
    /\ result = [c \in Calls |-> None]
    /\ failure = [c \in Calls |-> "none"]
    /\ accepted = [c \in Calls |-> <<>>]
    /\ origin = [c \in Calls |-> <<>>]
    /\ resolver_log = [c \in Calls |-> <<>>]

SpecConcurrent == InitConcurrent /\ [][Next]_vars

\* ------------------------------------------------------------- properties
\* the node at position j of call c, and what became of it
NodeAt(c, j) == source_nodes[c][j]

Processed(c) == 1 .. Len(accepted[c])

IsAccepted(c, j) == accepted[c][j] # None

CarriesFile(node) == node.metadata.valid /\ FileTruthy(node.metadata.file)

FileNameOf(node) == Basename(node.metadata.file[1])

CaseNumberOf(node) == MetaCaseNumber(node.metadata)

ResponseLengths(c) ==
    { Len(response[c][1].documents[1]), Len(response[c][1].metadatas),
      Len(response[c][1].distances) }

\* C1 as stated - for every value of n_results, zero included, the mapping
\* never holds more than n_results entries and no returned list is longer
\* than n_results
C1_BoundForEveryLimit ==
    \A c \in Calls :
        /\ Len(unique_cases[c]) <= n_results[c]
        /\ response[c] # None => \A len \in ResponseLengths(c) : len <= n_results[c]

\* C1 amended - for every n_results >= 1 the mapping never holds more than
\* n_results entries at any point of the loop, and documents[0], metadatas
\* and distances of the return value each have length <= n_results
C1_BoundForPositiveLimit ==
    \A c \in Calls :
        n_results[c] >= 1 =>
            /\ Len(unique_cases[c]) <= n_results[c]
            /\ response[c] # None => \A len \in ResponseLengths(c) : len <= n_results[c]

\* a call that returned exactly n_results >= 1 documents and left nodes of
\* the search output unvisited
C1_Witness ==
    \E c \in Calls :
        /\ n_results[c] >= 1
        /\ response[c] # None
        /\ Len(response[c][1].documents[1]) = n_results[c]
        /\ i[c] < Len(source_nodes[c])

\* C2 - the entries of the mapping, and with them the index-aligned lists of
\* the return value, stand in the order in which their nodes appear in the
\* search output
C2_OrderPreserved ==
    \A c \in Calls :
        /\ \A p, q \in 1 .. Len(origin[c]) :
               p < q => origin[c][p].value < origin[c][q].value
        /\ response[c] # None =>
               \A p \in 1 .. Len(response[c][1].distances) :
                   /\ response[c][1].documents[1][p] = NodeAt(c, origin[c][p].value).content
                   /\ response[c][1].distances[p] = unique_cases[c][p].value.distance
                   /\ response[c][1].metadatas[p] = unique_cases[c][p].value.metadata

\* C3 - of two nodes that carry files with equal basenames, the later one is
\* never accepted once the earlier one was, and no two accepted nodes share
\* a basename
C3_FilenameDedup ==
    \A c \in Calls :
        \A j, k \in Processed(c) :
            ( /\ j < k
              /\ CarriesFile(NodeAt(c, j)) /\ CarriesFile(NodeAt(c, k))
              /\ FileNameOf(NodeAt(c, j)) = FileNameOf(NodeAt(c, k))
              /\ IsAccepted(c, j) )
            => ~IsAccepted(c, k)

\* two different paths with one basename, with different case numbers and
\* different texts: the first was accepted, the second rejected
C3_Witness ==
    \E c \in Calls :
        \E j, k \in Processed(c) :
            /\ j < k
            /\ CarriesFile(NodeAt(c, j)) /\ CarriesFile(NodeAt(c, k))
            /\ NodeAt(c, j).metadata.file # NodeAt(c, k).metadata.file
            /\ FileNameOf(NodeAt(c, j)) = FileNameOf(NodeAt(c, k))
            /\ CaseNumberOf(NodeAt(c, j)) # CaseNumberOf(NodeAt(c, k))
            /\ ContentHash(NodeAt(c, j).content) # ContentHash(NodeAt(c, k).content)
            /\ IsAccepted(c, j) /\ ~IsAccepted(c, k)
            /\ FileNameOf(NodeAt(c, j)) \in Keys(unique_cases[c])

\* keys and content hashes of the nodes accepted before node k
AcceptedBefore(c, k) == {j \in 1 .. k - 1 : IsAccepted(c, j)}

KeysBefore(c, k) == {accepted[c][j][1] : j \in AcceptedBefore(c, k)}

HashesBefore(c, k) ==
    {StrPrefix(NodeAt(c, j).content, HashPrefixLen) : j \in AcceptedBefore(c, k)}

\* C4 - of two nodes that carry files with different names and the same
\* non-empty case number, the later is never accepted once the earlier was;
\* the empty case number never enters seen_case_numbers, and a node with an
\* empty case number is only ever rejected for its file name or its content
C4_CaseNumberDedup ==
    \A c \in Calls :
        /\ "" \notin seen_case_numbers[c]
        /\ \A j, k \in Processed(c) :
               ( /\ j < k
                 /\ CarriesFile(NodeAt(c, j)) /\ CarriesFile(NodeAt(c, k))
                 /\ FileNameOf(NodeAt(c, j)) # FileNameOf(NodeAt(c, k))
                 /\ CaseNumberOf(NodeAt(c, j)) # ""
                 /\ CaseNumberOf(NodeAt(c, j)) = CaseNumberOf(NodeAt(c, k))
                 /\ IsAccepted(c, j) )
               => ~IsAccepted(c, k)
        /\ \A k \in Processed(c) :
               ( /\ CarriesFile(NodeAt(c, k))
                 /\ CaseNumberOf(NodeAt(c, k)) = ""
                 /\ ~IsAccepted(c, k) )
               => \/ FileNameOf(NodeAt(c, k)) \in KeysBefore(c, k)
                  \/ StrPrefix(NodeAt(c, k).content, HashPrefixLen) \in HashesBefore(c, k)

\* two files with different names and different texts and the case number
\* "100": the first was accepted and its case number recorded, the second
\* rejected
C4_Witness ==
    \E c \in Calls :
        \E j, k \in Processed(c) :
            /\ j < k
            /\ CarriesFile(NodeAt(c, j)) /\ CarriesFile(NodeAt(c, k))
            /\ FileNameOf(NodeAt(c, j)) # FileNameOf(NodeAt(c, k))
            /\ FileNameOf(NodeAt(c, k)) \notin Keys(unique_cases[c])
            /\ NodeAt(c, j).content # NodeAt(c, k).content
            /\ CaseNumberOf(NodeAt(c, j)) = "100" /\ CaseNumberOf(NodeAt(c, k)) = "100"
            /\ "100" \in seen_case_numbers[c]
            /\ IsAccepted(c, j) /\ ~IsAccepted(c, k)

\* C5 - of two nodes without a file whose texts agree on the first 200
\* characters, the later one is never accepted
C5_ContentHashDedup ==
    \A c \in Calls :
        \A j, k \in Processed(c) :
            ( /\ j < k
              /\ ~CarriesFile(NodeAt(c, j)) /\ ~CarriesFile(NodeAt(c, k))
              /\ StrPrefix(NodeAt(c, j).content, HashPrefixLen)
                    = StrPrefix(NodeAt(c, k).content, HashPrefixLen) )
            => ~IsAccepted(c, k)

\* two nodes without a file whose texts are longer than 200 characters,
\* differ, and agree on the first 200: the first accepted, the second rejected
C5_Witness ==
    \E c \in Calls :
        \E j, k \in Processed(c) :
            /\ j < k
            /\ ~CarriesFile(NodeAt(c, j)) /\ ~CarriesFile(NodeAt(c, k))
            /\ NodeAt(c, j).content # NodeAt(c, k).content
            /\ StrLen(NodeAt(c, j).content) > HashPrefixLen
            /\ StrPrefix(NodeAt(c, j).content, HashPrefixLen)
                  = StrPrefix(NodeAt(c, k).content, HashPrefixLen)
            /\ IsAccepted(c, j) /\ ~IsAccepted(c, k)

\* C6 as stated - for every n_results, zero included: every node that was
\* processed found fewer than n_results entries in the mapping, and the
\* resolver runs at most n_results times in a call
C6_StopsForEveryLimit ==
    \A c \in Calls :
        /\ Len(resolver_log[c]) <= n_results[c]
        /\ \A k \in Processed(c) : Cardinality(KeysBefore(c, k)) < n_results[c]

\* C6 amended - for every n_results >= 1: every node that was processed
\* found fewer than n_results entries in the mapping, once the mapping holds
\* n_results entries the loop is left for good, and the resolver runs at
\* most n_results times in a call
C6_StopsForPositiveLimit ==
    \A c \in Calls :
        n_results[c] >= 1 =>
            /\ Len(resolver_log[c]) <= n_results[c]
            /\ \A k \in Processed(c) : Cardinality(KeysBefore(c, k)) < n_results[c]
            /\ Len(unique_cases[c]) >= n_results[c] =>
                   /\ pc[c] # "loop"
                   /\ Len(accepted[c]) = i[c]

\* a finished call whose resolver ran exactly n_results >= 1 times and that
\* left nodes of the search output unvisited
C6_Witness ==
    \E c \in Calls :
        /\ n_results[c] >= 1
        /\ pc[c] = "done"
        /\ Len(resolver_log[c]) = n_results[c]
        /\ Len(accepted[c]) = i[c]
        /\ i[c] < Len(source_nodes[c])

\* no run of the resolver found a file
NoFileFound(c) ==
    \A r \in 1 .. Len(resolver_log[c]) :
        \A q \in 1 .. Len(resolver_log[c][r]) : resolver_log[c][r][q] \notin fs.exists

CaseDataAt(c, p) == unique_cases[c][p].value.metadata.case_data

\* C7 as stated - when the resolver finds no file for any node, every entry
\* of the mapping stands under the synthetic key of its position, no_file_0,
\* no_file_1, ..., and carries an error marker
C7_AllUnderSyntheticKeys ==
    \A c \in Calls :
        NoFileFound(c) =>
            \A p \in 1 .. Len(unique_cases[c]) :
                /\ unique_cases[c][p].key = NoFileKey(p - 1)
                /\ CaseDataAt(c, p).error # None

\* C7 amended - when the resolver finds no file for any node, an accepted
\* node that carries a file is stored under its basename with the "not in
\* law_data" marker; only a node without a file is stored under
\* no_file_<size of the mapping>, with the "no file info" marker
C7_DegradedByBranch ==
    \A c \in Calls :
        NoFileFound(c) =>
            /\ \A k \in Processed(c) :
                   IsAccepted(c, k) =>
                       accepted[c][k][1] =
                           IF CarriesFile(NodeAt(c, k))
                           THEN FileNameOf(NodeAt(c, k))
                           ELSE NoFileKey(Cardinality(KeysBefore(c, k)))
            /\ \A p \in 1 .. Len(unique_cases[c]) :
                   CaseDataAt(c, p) =
                       IF CarriesFile(NodeAt(c, origin[c][p].value))
                       THEN NotInLawData ELSE NoFileInfo

\* an empty law_data tree, the resolver has run, and the mapping holds a
\* file node under its basename next to a node without file under no_file_1
C7_Witness ==
    \E c \in Calls :
        /\ fs.exists = {}
        /\ Len(resolver_log[c]) >= 1
        /\ \E p, q \in 1 .. Len(unique_cases[c]) :
               /\ CarriesFile(NodeAt(c, origin[c][p].value))
               /\ unique_cases[c][p].key = FileNameOf(NodeAt(c, origin[c][p].value))
               /\ CaseDataAt(c, p) = NotInLawData
               /\ ~CarriesFile(NodeAt(c, origin[c][q].value))
               /\ unique_cases[c][q].key = "no_file_1"
               /\ CaseDataAt(c, q) = NoFileInfo

\* the search step of call c failed: the session or call_tool raised, or
\* query_engine.aquery raised inside the tool
SearchFailed(c) == failure[c] \in {"session", "aquery"}

ErrorTexts == {SearchErrorText, EmptyResponseText, ToolErrorText}

\* C8 as stated - a call whose search step failed returns a response with a
\* non-empty error text as analysis and with documents, metadatas and
\* distances all equal to the empty list
C8_FailureGivesEmptyLists ==
    \A c \in Calls :
        (SearchFailed(c) /\ pc[c] = "done") =>
            /\ result[c] # None
            /\ result[c][1].analysis \in ErrorTexts
            /\ result[c][1].analysis # ""
            /\ result[c][1].documents = <<>>
            /\ result[c][1].metadatas = <<>>
            /\ result[c][1].distances = <<>>

\* C8 amended - a call whose search step failed does not raise: it ends with
\* a response whose analysis is a non-empty error text, whose documents hold
\* one empty group, [[]], and whose metadatas and distances are empty
C8_FailureGivesDegradedResponse ==
    \A c \in Calls :
        /\ SearchFailed(c) => pc[c] \in {"tool_raised", "done"}
        /\ (SearchFailed(c) /\ pc[c] = "done") =>
               /\ result[c] # None
               /\ result[c][1].analysis \in ErrorTexts
               /\ result[c][1].analysis # ""
               /\ result[c][1].documents = << <<>> >>
               /\ result[c][1].metadatas = <<>>
               /\ result[c][1].distances = <<>>

\* aquery raised inside the tool and search_cases returned the server's
\* error message as analysis
C8_Witness ==
    \E c \in Calls :
        /\ failure[c] = "aquery"
        /\ pc[c] = "done"
        /\ result[c] # None
        /\ result[c][1].analysis = ToolErrorText
        /\ response[c] = None

\* C9 - a node whose metadata is not a mapping is skipped: no fault leaves
\* the loop because of it, it is not inserted, and the nodes after it are
\* still processed, so the tool returns
C9_MalformedSkipped ==
    \A c \in Calls :
        /\ failure[c] # "metadata"
        /\ \A j \in 1 .. Len(source_nodes[c]) :
               (~NodeAt(c, j).metadata.valid /\ i[c] = j) => pc[c] # "tool_raised"

\* C10 - every entry of the mapping, from the file branch or the no-file
\* branch, has distance 1 - score when its node has a score, zero included,
\* and 0.5 when the score is None (in tenths: 10 - score, and 5)
C10_ScoreToDistance ==
    \A c \in Calls :
        \A p \in 1 .. Len(unique_cases[c]) :
            LET node == NodeAt(c, origin[c][p].value)
            IN  /\ node.score # None =>
                       unique_cases[c][p].value.distance = 10 - node.score[1]
                /\ node.score = None => unique_cases[c][p].value.distance = 5

\* the returned distances hold 1.0 for a file node with score 0 and 0.5 for
\* a node without file and without score
C10_Witness ==
    \E c \in Calls :
        /\ response[c] # None
        /\ \E p, q \in 1 .. Len(response[c][1].distances) :
               /\ CarriesFile(NodeAt(c, origin[c][p].value))
               /\ NodeAt(c, origin[c][p].value).score = Some(0)
               /\ response[c][1].distances[p] = 10
               /\ ~CarriesFile(NodeAt(c, origin[c][q].value))
               /\ NodeAt(c, origin[c][q].value).score = None
               /\ response[c][1].distances[q] = 5

\* the three places of a file name, in the order civil_law_details,
\* commercial_law_details, law_data
PlacesOf(name) ==
    << <<"law_data", "civil_law_details", name>>,
       <<"law_data", "commercial_law_details", name>>,
       <<"law_data", name>> >>

\* the positions among the three places at which a file exists
ExistingPlaces(name) == {q \in 1 .. 3 : PlacesOf(name)[q] \in fs.exists}

FirstPlace(name) ==
    CHOOSE q \in ExistingPlaces(name) : \A r \in ExistingPlaces(name) : q <= r

\* what the claim expects as case_data for a file name
ExpectedCaseData(name) ==
    IF ExistingPlaces(name) = {} THEN ErrorMarker("no such file in law_data")
    ELSE IF PlacesOf(name)[FirstPlace(name)] \in fs.parses
    THEN [error |-> None, json |-> Some(PlacesOf(name)[FirstPlace(name)])]
    ELSE ErrorMarker("load failed")

\* the accepted nodes that carry a file, in order of acceptance
FileAcceptances(c) ==
    SelectSeq([k \in 1 .. Len(accepted[c]) |-> k],
              LAMBDA k : IsAccepted(c, k) /\ CarriesFile(NodeAt(c, k)))

\* C11 - each accepted node that carries a file has its three places probed
\* in the order civil_law_details, commercial_law_details, law_data, up to
\* and including the first place that exists; its case_data is the parsed
\* content of that first file, a load-failure marker if that file does not
\* parse (later places are not tried), or the not-found marker if no place
\* exists; in all three outcomes the node is stored under its file name and
\* the loop does not raise
C11_ResolverOutcome ==
    \A c \in Calls :
        /\ Len(resolver_log[c]) = Len(FileAcceptances(c))
        /\ \A r \in 1 .. Len(resolver_log[c]) :
               LET k    == FileAcceptances(c)[r]
                   name == FileNameOf(NodeAt(c, k))
               IN  /\ accepted[c][k] = Some(name)
                   /\ name \in Keys(unique_cases[c])
                   /\ resolver_log[c][r] =
                          IF ExistingPlaces(name) = {} THEN PlacesOf(name)
                          ELSE SubSeq(PlacesOf(name), 1, FirstPlace(name))
                   /\ \A p \in 1 .. Len(unique_cases[c]) :
                          origin[c][p].value = k =>
                              /\ unique_cases[c][p].key = name
                              /\ CaseDataAt(c, p) = ExpectedCaseData(name)
        /\ \A k \in 1 .. Len(source_nodes[c]) :
               (CarriesFile(NodeAt(c, k)) /\ i[c] = k) => pc[c] # "tool_raised"

\* x.json is missing in civil_law_details, unreadable in
\* commercial_law_details and valid in law_data: the node was accepted under
\* "x.json" with the load-failure marker after two probes
C11_Witness ==
    \E c \in Calls :
        /\ <<"law_data", "civil_law_details", "x.json">> \notin fs.exists
        /\ <<"law_data", "commercial_law_details", "x.json">> \in fs.exists \ fs.parses
        /\ <<"law_data", "x.json">> \in fs.exists \cap fs.parses
        /\ \E p \in 1 .. Len(unique_cases[c]) :
               /\ unique_cases[c][p].key = "x.json"
               /\ CaseDataAt(c, p) = LoadFailed
        /\ \E r \in 1 .. Len(resolver_log[c]) :
               resolver_log[c][r] = << <<"law_data", "civil_law_details", "x.json">>,
                                       <<"law_data", "commercial_law_details", "x.json">> >>

\* ---------------------------------------------------------------- C12
\* chromadb_search run alone on nodes with limit: the three containers after
\* at most k passes of the loop, and whether the loop has been left early
RECURSIVE Alone(_, _, _, _)
Alone(nodes, limit, files, k) ==
    IF k = 0
    THEN [cases |-> <<>>, contents |-> {}, case_numbers |-> {}, left |-> FALSE]
    ELSE LET before == Alone(nodes, limit, files, k - 1)
             pass   == LoopPass(before.cases, before.contents, before.case_numbers,
                                files, nodes[k], limit)
         IN  IF before.left THEN before
             ELSE [cases |-> pass.cases, contents |-> pass.contents,
                   case_numbers |-> pass.case_numbers,
                   left |-> (pass.raised \/ pass.stop)]

AloneResponse(nodes, text, limit, files) ==
    AssembleResponse(Alone(nodes, limit, files, Len(nodes)).cases, text, limit)

\* C12 - the dedup state is scoped to the call: while calls interleave, the
\* result mapping and the two seen-sets of each call are those of the same
\* call run alone on its own nodes and limit after as many passes, the
\* response of each call is the one it would give alone, and every rejection
\* in a call is explained by a node that same call accepted earlier
C12_CallScopedState ==
    \A c \in Calls :
        LET alone == Alone(source_nodes[c], n_results[c], fs, Len(accepted[c]))
        IN  /\ unique_cases[c] = alone.cases
            /\ seen_content[c] = alone.contents
            /\ seen_case_numbers[c] = alone.case_numbers
            /\ response[c] # None =>
                   response[c][1] =
                       AloneResponse(source_nodes[c], analysis[c], n_results[c], fs)
            /\ \A k \in Processed(c) :
                   ~IsAccepted(c, k) =>
                       \E j \in AcceptedBefore(c, k) :
                           \/ FileNameOf(NodeAt(c, j)) = FileNameOf(NodeAt(c, k))
                           \/ /\ CaseNumberOf(NodeAt(c, k)) # ""
                              /\ CaseNumberOf(NodeAt(c, j)) = CaseNumberOf(NodeAt(c, k))
                           \/ StrPrefix(NodeAt(c, j).content, HashPrefixLen)
                                  = StrPrefix(NodeAt(c, k).content, HashPrefixLen)

\* two calls are inside their loops at once, each having accepted the same
\* file from the same node, and neither has finished
C12_Witness ==
    /\ pc[1] = "loop" /\ pc[2] = "loop"
    /\ source_nodes[1] = source_nodes[2]
    /\ accepted[1] = << Some("x.json") >>
    /\ accepted[2] = << Some("x.json") >>
    /\ Len(unique_cases[1]) = 1 /\ Len(unique_cases[2]) = 1

\* ---------------------------------------------------------------- C13
\* C13 - every accepted node is stored under a key that no earlier accepted
\* node of the call was stored under, so the result mapping holds one entry
\* per accepted node and no entry is ever replaced
C13_NoOverwrite ==
    \A c \in Calls :
        /\ \A k \in Processed(c) :
               IsAccepted(c, k) => accepted[c][k][1] \notin KeysBefore(c, k)
        /\ Len(unique_cases[c]) = Cardinality({k \in Processed(c) : IsAccepted(c, k)})

\* ---------------------------------------------------------------- C14
AcceptedNodes(c) == {k \in Processed(c) : IsAccepted(c, k)}

\* the step of call c that rejects the node at position i
RejectedBy(c) == accepted'[c] = Append(accepted[c], None)

\* what the containers of call c hold comes from its accepted nodes alone
RecordedForAcceptedOnly(c) ==
    /\ seen_content[c] =
           {StrPrefix(NodeAt(c, k).content, HashPrefixLen) : k \in AcceptedNodes(c)}
    /\ seen_case_numbers[c] =
           {CaseNumberOf(NodeAt(c, k)) :
               k \in {j \in AcceptedNodes(c) :
                         CarriesFile(NodeAt(c, j)) /\ CaseNumberOf(NodeAt(c, j)) # ""}}
    /\ Keys(unique_cases[c]) = {accepted[c][k][1] : k \in AcceptedNodes(c)}
    /\ Len(resolver_log[c]) =
           Cardinality({k \in AcceptedNodes(c) : CarriesFile(NodeAt(c, k))})

\* every rejected node of call c repeats the key, the non-empty case number
\* or the hash of a node accepted before it
RejectedForAcceptedOnly(c) ==
    \A k \in Processed(c) \ AcceptedNodes(c) :
        \E j \in AcceptedBefore(c, k) :
            \/ /\ CarriesFile(NodeAt(c, k))
               /\ accepted[c][j][1] = FileNameOf(NodeAt(c, k))
            \/ /\ CarriesFile(NodeAt(c, k)) /\ CarriesFile(NodeAt(c, j))
               /\ CaseNumberOf(NodeAt(c, k)) # ""
               /\ CaseNumberOf(NodeAt(c, j)) = CaseNumberOf(NodeAt(c, k))
            \/ StrPrefix(NodeAt(c, j).content, HashPrefixLen)
                   = StrPrefix(NodeAt(c, k).content, HashPrefixLen)

\* C14 - a step that rejects a node leaves the result mapping, the seen case
\* numbers and the seen hashes of the call as they were and runs no resolver;
\* after every step the two seen-sets, the keys and the resolver runs are
\* those of the accepted nodes only, and every rejection repeats a key, case
\* number or hash of an earlier accepted node, never of a rejected one
C14_RejectionChangesNothing ==
    [][\A c \in Calls :
          /\ RejectedBy(c) =>
                 /\ unique_cases'[c] = unique_cases[c]
                 /\ seen_content'[c] = seen_content[c]
                 /\ seen_case_numbers'[c] = seen_case_numbers[c]
                 /\ resolver_log'[c] = resolver_log[c]
                 /\ origin'[c] = origin[c]
          /\ RecordedForAcceptedOnly(c)'
          /\ RejectedForAcceptedOnly(c)']_vars

\* a node was rejected for its file name while carrying a case number no
\* accepted node had, and a later node with that case number, another file
\* and another text was accepted
C14_Witness ==
    \E c \in Calls :
        \E j, k, m \in Processed(c) :
            /\ j < k /\ k < m
            /\ CarriesFile(NodeAt(c, j)) /\ CarriesFile(NodeAt(c, k))
            /\ CarriesFile(NodeAt(c, m))
            /\ IsAccepted(c, j) /\ ~IsAccepted(c, k) /\ IsAccepted(c, m)
            /\ FileNameOf(NodeAt(c, j)) = FileNameOf(NodeAt(c, k))
            /\ CaseNumberOf(NodeAt(c, j)) = ""
            /\ CaseNumberOf(NodeAt(c, k)) # ""
            /\ CaseNumberOf(NodeAt(c, m)) = CaseNumberOf(NodeAt(c, k))
            /\ StrPrefix(NodeAt(c, k).content, HashPrefixLen) \notin seen_content[c]
            /\ Len(resolver_log[c]) = 2
            /\ Len(unique_cases[c]) = 2

====
